---------------------------- MODULE Spec2Model ----------------------------
(***************************************************************************)
(* A model of the bioassay package: the file loader (utilities.py), the    *)
(* diagnostic-dose analyzer (diagnostic-dose.py) and the probit analyzer   *)
(* and plotter (dose-response.py).  The statistical and table libraries    *)
(* the package calls are modelled by what the calls do to the values the   *)
(* package hands them; floating-point numbers are fixed-point integers.    *)
(***************************************************************************)
EXTENDS Integers, Sequences, FiniteSets, TLC

VARIABLES
    loader,     \* the latest load_bioassay_data call and what came of it
    orig,       \* the caller's table as it was handed over (history variable)
    df,         \* the caller's table as it is now
    nofit,      \* the data subsets on which the probit fit does not converge
    last        \* the latest analyzer or plotter call and what came of it

vars == <<loader, orig, df, nofit, last>>

(***************************************************************************)
(* Bounds of the model.                                                    *)
(***************************************************************************)
MaxRows == 2
MaxTotal == 2

(***************************************************************************)
(* Small helpers on sequences.                                             *)
(***************************************************************************)
Range(s) == {s[i] : i \in 1..Len(s)}

RECURSIVE Dedup(_)
\* the distinct elements of s in the order of their first occurrence
Dedup(s) ==
    IF s = <<>> THEN <<>>
    ELSE LET front == Dedup(SubSeq(s, 1, Len(s) - 1))
             x == s[Len(s)]
         IN IF x \in Range(front) THEN front ELSE Append(front, x)

(***************************************************************************)
(* utilities.py: load_bioassay_data.  A path is a sequence of characters.  *)
(***************************************************************************)
UpperOf == [c \in {"c", "s", "v", "t", "x", "l"} |->
              CASE c = "c" -> "C" [] c = "s" -> "S" [] c = "v" -> "V"
                [] c = "t" -> "T" [] c = "x" -> "X" [] c = "l" -> "L"]

\* str.lower() on one character
LowerChar(ch) ==
    IF \E c \in DOMAIN UpperOf : UpperOf[c] = ch
    THEN CHOOSE c \in DOMAIN UpperOf : UpperOf[c] = ch
    ELSE ch

\* str.lower()
Lower(p) == [i \in 1..Len(p) |-> LowerChar(p[i])]

\* the index of the last occurrence of ch in p, 0 when there is none (str.rfind + 1)
RFind(p, ch) ==
    IF \E i \in 1..Len(p) : p[i] = ch
    THEN CHOOSE i \in 1..Len(p) : p[i] = ch /\ \A j \in (i+1)..Len(p) : p[j] # ch
    ELSE 0

\* os.path.splitext(p)[1] (posixpath): the extension starts at the last dot
\* of the last path component, unless only dots precede it in that component
SplitExt(p) ==
    LET sepIndex == RFind(p, "/")
        dotIndex == RFind(p, ".")
    IN IF dotIndex > sepIndex
          /\ \E k \in (sepIndex + 1)..(dotIndex - 1) : p[k] # "."
       THEN SubSeq(p, dotIndex, Len(p))
       ELSE <<>>

\* the extension the dispatch looks at (line 15)
FileExtensionNoLower(file_path) == SplitExt(file_path)
FileExtension(file_path) == SplitExt(Lower(file_path))

\* the if/elif chain of lines 18-28: the reader a path is handed to
Reader(file_extension) ==
    IF file_extension \in {<<".", "x", "l", "s", "x">>, <<".", "x", "l", "s">>}
    THEN "read_excel"
    ELSE IF file_extension = <<".", "c", "s", "v">> THEN "read_csv"
    ELSE IF file_extension = <<".", "t", "s", "v">> THEN "read_csv_tab"
    ELSE "none"

\* what a reader can do with a file: hand back a table, or raise
ReaderOutcomes == {"DataFrame", "FileNotFoundError", "ParserError", "ImportError"}

\* a call without the try/except of lines 17 and 32: the failure reaches the caller
LoadBodyUnguarded(file_path, outcome) ==
    LET ext == FileExtension(file_path)
        rd == Reader(ext)
        exc == IF rd = "none" THEN "ValueError"
               ELSE IF outcome = "DataFrame" THEN "none" ELSE outcome
    IN [file_path |-> file_path, called |-> TRUE, reader |-> rd,
        exception |-> exc,
        printed |-> "none",
        raised |-> exc # "none",
        returned |-> IF exc = "none" THEN "DataFrame" ELSE "nothing"]

\* load_bioassay_data(file_path), the reader ending in `outcome`
load_bioassay_data(file_path, outcome) ==
    LET ext == FileExtension(file_path)
        rd == Reader(ext)
        exc == IF rd = "none" THEN "ValueError"
               ELSE IF outcome = "DataFrame" THEN "none" ELSE outcome
    IN [file_path |-> file_path, called |-> TRUE, reader |-> rd,
        exception |-> exc,
        printed |-> IF exc = "none" THEN "none" ELSE "Error loading file",
        raised |-> FALSE,
        returned |-> IF exc = "none" THEN "DataFrame" ELSE "None"]

\* the paths the model calls the loader with: a stem followed by a suffix
Stems == { <<>>, <<"a">>, <<"d", "/">>, <<"d", ".", "v", "/", "a">>,
           <<"a", ".", "b">>, <<".">> }
Suffixes == { <<>>, <<".", "c", "s", "v">>, <<".", "C", "S", "V">>,
              <<".", "C", "s", "v">>, <<".", "t", "s", "v">>,
              <<".", "T", "S", "V">>, <<".", "x", "l", "s", "x">>,
              <<".", "X", "L", "S", "X">>, <<".", "x", "l", "s">>,
              <<".", "X", "l", "s">>, <<".", "j", "s", "o", "n">>,
              <<".", "c", "s", "v", ".", "b", "a", "k">>,
              <<"c", "s", "v">>, <<".", "c", "s", "v", "/">>,
              <<".", "x", "l", "s", "x", "x">>, <<".", "c", "s">>,
              <<".", "c", "s", "v", "/", "a">> }
Paths == {st \o su : st \in Stems, su \in Suffixes}

NotCalled == [file_path |-> <<>>, called |-> FALSE, reader |-> "none",
              exception |-> "none", printed |-> "none", raised |-> FALSE,
              returned |-> "nothing"]

Load ==
    \E p \in Paths, outcome \in ReaderOutcomes :
        /\ loader' = load_bioassay_data(p, outcome)
        /\ UNCHANGED <<orig, df, nofit, last>>

(***************************************************************************)
(* Tables.  A table is its column names, in order, and its rows; a row is  *)
(* a function from the column names to values.  Floating-point values are  *)
(* fixed-point integers with FScale units to one.                          *)
(***************************************************************************)
FScale == 10 * 100
NaN == 0 - (FScale * FScale)

Strains == {1, 2}
Concentrations == {1, 2}
BaseCols == <<"strain", "concentration", "total", "dead">>

Rows == {r \in [strain : Strains, concentration : Concentrations,
                total : 1..MaxTotal, dead : 0..MaxTotal] : r.dead <= r.total}

Tables == {[cols |-> BaseCols, data |-> d] :
              d \in UNION {[1..n -> Rows] : n \in 1..MaxRows}}

\* frame[column] for every row: the column as a vector
Column(data, c) == [i \in 1..Len(data) |-> data[i][c]]

\* frame['dead'] / frame['total'], row by row
Proportion(data) ==
    [i \in 1..Len(data) |-> (data[i]["dead"] * FScale) \div data[i]["total"]]

\* frame['proportion'] = frame['dead'] / frame['total'] on the frame itself:
\* the column is added, or overwritten when it is there
SetProportion(frame) ==
    LET newcols == IF "proportion" \in Range(frame.cols) THEN frame.cols
                   ELSE Append(frame.cols, "proportion")
        prop == Proportion(frame.data)
    IN [cols |-> newcols,
        data |-> [i \in 1..Len(frame.data) |->
                    [c \in Range(newcols) |->
                        IF c = "proportion" THEN prop[i] ELSE frame.data[i][c]]]]

\* frame[frame[column] == value]: a new frame holding the matching rows
Filter(frame, column, value) ==
    [cols |-> frame.cols,
     data |-> SelectSeq(frame.data, LAMBDA r : r[column] = value)]

\* frame[column].unique(): the distinct values in first-seen order
Unique(frame, column) == Dedup(Column(frame.data, column))

(***************************************************************************)
(* diagnostic-dose.py: analyze_diagnostic_dose.                            *)
(***************************************************************************)
RECURSIVE IsqrtIn(_, _, _)
IsqrtIn(x, lo, hi) ==
    IF lo >= hi THEN lo
    ELSE LET mid == (lo + hi + 1) \div 2
         IN IF mid * mid <= x THEN IsqrtIn(x, mid, hi) ELSE IsqrtIn(x, lo, mid - 1)

\* np.sqrt on a fixed-point value: x has FScale * FScale units to one
Sqrt(x) == IsqrtIn(x, 0, FScale)

\* stats.t.ppf(0.975, dof), in thousandths
TQuantiles == <<12706, 4303, 3182, 2776, 2571, 2447, 2365, 2306>>
TScale == 10 * 100
TPpf975(dof) == TQuantiles[dof]

\* stats.t.interval(0.95, dof, loc, scale): NaN without degrees of freedom
\* or without a positive scale
TIntervalLowerAbove(dof, loc, scale) ==
    IF dof <= 0 \/ scale <= 0 THEN NaN
    ELSE loc + (TPpf975(dof) * scale) \div TScale
TIntervalLower(dof, loc, scale) ==
    IF dof <= 0 \/ scale <= 0 THEN NaN
    ELSE loc - (TPpf975(dof) * scale) \div TScale
TIntervalUpper(dof, loc, scale) ==
    IF dof <= 0 \/ scale <= 0 THEN NaN
    ELSE loc + (TPpf975(dof) * scale) \div TScale

Times100(x) == IF x = NaN THEN NaN ELSE x * 100

Metrics == <<"mean_mortality", "ci_lower", "ci_upper">>

\* calculate_ci (lines 20-25), called by apply with the rows of one group:
\* row[total_column] and row[dead_column] are columns, so every metric is a
\* vector holding one value per row of the group
calculate_ci(group) ==
    LET n == Column(group, "total")
        p == Proportion(group)
        se == [i \in 1..Len(group) |-> Sqrt((p[i] * (FScale - p[i])) \div n[i])]
    IN [mean_mortality |-> [i \in 1..Len(group) |-> p[i] * 100],
        ci_lower |-> [i \in 1..Len(group) |->
                        Times100(TIntervalLower(n[i] - 1, p[i], se[i]))],
        ci_upper |-> [i \in 1..Len(group) |->
                        Times100(TIntervalUpper(n[i] - 1, p[i], se[i]))]]

\* the group key of a row: its values in the grouping columns, in their order
KeyOf(row, groupby_columns) ==
    [k \in 1..Len(groupby_columns) |-> row[groupby_columns[k]]]

LexLess(a, b) ==
    \E i \in 1..Len(a) : a[i] < b[i] /\ \A j \in 1..(i - 1) : a[j] = b[j]

RECURSIVE SortKeys(_)
\* the keys of set S in ascending order
SortKeys(S) ==
    IF S = {} THEN <<>>
    ELSE LET least == CHOOSE k \in S : \A o \in S \ {k} : LexLess(k, o)
         IN <<least>> \o SortKeys(S \ {least})

\* the keys in the order their groups are first seen in the table
FirstSeenKeys(frame, groupby_columns) ==
    Dedup([i \in 1..Len(frame.data) |-> KeyOf(frame.data[i], groupby_columns)])

\* the groups iterated in the order they are first seen (sort=False)
GroupKeysUnsorted(frame, groupby_columns) ==
    FirstSeenKeys(frame, groupby_columns)

\* df.groupby(groupby_columns): the group keys in the order groupby iterates
\* them; with its default sort=True that is ascending key order
GroupKeys(frame, groupby_columns) ==
    SortKeys(Range(FirstSeenKeys(frame, groupby_columns)))

GroupRows(frame, groupby_columns, key) ==
    SelectSeq(frame.data, LAMBDA r : KeyOf(r, groupby_columns) = key)

\* one row of the result: the key in the grouping columns, then the metrics
ResultRow(groupby_columns, key, m) ==
    [c \in Range(groupby_columns) \cup Range(Metrics) |->
        IF c \in Range(Metrics) THEN m[c]
        ELSE key[CHOOSE k \in 1..Len(groupby_columns) : groupby_columns[k] = c]]

\* analyze_diagnostic_dose(df, groupby_columns) (lines 27-30)
analyze_diagnostic_dose(frame, groupby_columns) ==
    IF ~ (Range(groupby_columns) \subseteq Range(frame.cols))
    THEN [raised |-> "KeyError", returned |-> FALSE, value |-> "nothing"]
    ELSE LET keys == GroupKeys(frame, groupby_columns)
         IN [raised |-> "none", returned |-> TRUE,
             value |-> [cols |-> groupby_columns \o Metrics,
                        data |-> [g \in 1..Len(keys) |->
                            ResultRow(groupby_columns, keys[g],
                                calculate_ci(GroupRows(frame, groupby_columns,
                                                       keys[g])))]]]

\* the grouping lists the model calls the analyzer with
GroupingColumns == {"strain", "concentration", "proportion"}
Groupings == {<<a>> : a \in GroupingColumns}
             \cup ({<<a, b>> : a, b \in GroupingColumns}
                   \ {<<a, a>> : a \in GroupingColumns})

NoCall == [op |-> "none"]

AnalyzeDiagnosticDose ==
    \E g \in Groupings :
        /\ last' = [op |-> "analyze_diagnostic_dose", groupby_columns |-> g]
                    @@ analyze_diagnostic_dose(df, g)
        /\ UNCHANGED <<loader, orig, df, nofit>>

(***************************************************************************)
(* dose-response.py: calculate_lc_probit.  A dict is its keys in insertion *)
(* order and the mapping; the numbers a probit fit yields are terms naming *)
(* the statistic, the percentile and the data the model was fitted to.     *)
(***************************************************************************)
LCValues == {50, 90}
Pooled == 0

\* f"LC{lc_value}"
LCKey(lc_value) == "LC" \o ToString(lc_value)

\* the value of one statistic of the model fitted to data (lines 26-35)
Estimate(stat, lc_value, data) ==
    [stat |-> stat, lc_value |-> lc_value,
     concentration |-> Column(data, "concentration"),
     proportion |-> Column(data, "proportion")]

\* calculate_lc(data) (lines 21-41), data being the rows of `subset`: the
\* proportion column is set on data itself, then the model is fitted
calculate_lc(data, subset, lc_value, failing) ==
    LET withprop == SetProportion(data)
    IN IF subset \in failing
       THEN [raised |-> "FitError", returned |-> FALSE, value |-> "nothing",
             data |-> withprop]
       ELSE [raised |-> "none", returned |-> TRUE,
             value |-> [keys |-> <<LCKey(lc_value), "CI_lower", "CI_upper">>,
                        map |-> (LCKey(lc_value) :>
                                    Estimate("LC", lc_value, withprop.data))
                                @@ ("CI_lower" :>
                                    Estimate("CI_lower", lc_value, withprop.data))
                                @@ ("CI_upper" :>
                                    Estimate("CI_upper", lc_value, withprop.data))],
             data |-> withprop]

\* the per-strain loop with a failing strain skipped instead of raised
RECURSIVE StrainLoopSkipping(_, _, _, _, _)
StrainLoopSkipping(frame, strains, lc_value, failing, results) ==
    IF strains = <<>>
    THEN [raised |-> "none", returned |-> TRUE, value |-> results]
    ELSE LET strain == Head(strains)
             r == calculate_lc(Filter(frame, "strain", strain), strain,
                               lc_value, failing)
         IN IF r.raised # "none"
            THEN StrainLoopSkipping(frame, Tail(strains), lc_value, failing, results)
            ELSE StrainLoopSkipping(frame, Tail(strains), lc_value, failing,
                     [keys |-> Append(results.keys, strain),
                      map |-> results.map @@ (strain :> r.value)])

\* the per-strain loop with every strain fitted to the whole table
RECURSIVE StrainLoopWholeTable(_, _, _, _, _)
StrainLoopWholeTable(frame, strains, lc_value, failing, results) ==
    IF strains = <<>>
    THEN [raised |-> "none", returned |-> TRUE, value |-> results]
    ELSE LET strain == Head(strains)
             r == calculate_lc(frame, strain, lc_value, failing)
         IN IF r.raised # "none"
            THEN [raised |-> r.raised, returned |-> FALSE, value |-> "nothing"]
            ELSE StrainLoopWholeTable(frame, Tail(strains), lc_value, failing,
                     [keys |-> Append(results.keys, strain),
                      map |-> results.map @@ (strain :> r.value)])

\* the loop of lines 45-47 over the strains still to do: strain_data is a new
\* frame, so the caller's table is left alone; an exception of calculate_lc
\* ends the loop and the call
RECURSIVE StrainLoop(_, _, _, _, _)
StrainLoop(frame, strains, lc_value, failing, results) ==
    IF strains = <<>>
    THEN [raised |-> "none", returned |-> TRUE, value |-> results]
    ELSE LET strain == Head(strains)
             r == calculate_lc(Filter(frame, "strain", strain), strain,
                               lc_value, failing)
         IN IF r.raised # "none"
            THEN [raised |-> r.raised, returned |-> FALSE, value |-> "nothing"]
            ELSE StrainLoop(frame, Tail(strains), lc_value, failing,
                     [keys |-> Append(results.keys, strain),
                      map |-> results.map @@ (strain :> r.value)])

EmptyDict == [keys |-> <<>>, map |-> <<>>]

\* calculate_lc_probit(df, lc_value, by_strain) (lines 43-51): what it raises
\* or returns, and the caller's table after the call
calculate_lc_probit(frame, lc_value, by_strain, failing) ==
    IF by_strain
    THEN StrainLoop(frame, Unique(frame, "strain"), lc_value, failing, EmptyDict)
         @@ [frame |-> frame]
    ELSE LET r == calculate_lc(frame, Pooled, lc_value, failing)
         IN [raised |-> r.raised, returned |-> r.returned, value |-> r.value,
             frame |-> r.data]

CalculateLcProbit ==
    \E lc_value \in LCValues, by_strain \in BOOLEAN :
        \E r \in {calculate_lc_probit(df, lc_value, by_strain, nofit)} :
           /\ last' = [op |-> "calculate_lc_probit", lc_value |-> lc_value,
                       by_strain |-> by_strain, raised |-> r.raised,
                       returned |-> r.returned, value |-> r.value]
           /\ df' = r.frame
           /\ UNCHANGED <<loader, orig, nofit>>

(***************************************************************************)
(* dose-response.py: plot_lc_probit.  A figure is its traces and its       *)
(* annotations, in the order they were added.                              *)
(***************************************************************************)
IsDict(v) == "keys" \in DOMAIN v

SeqMin(s) == CHOOSE x \in Range(s) : \A y \in Range(s) : x <= y
SeqMax(s) == CHOOSE x \in Range(s) : \A y \in Range(s) : x >= y

\* px.scatter(..., color='strain') (lines 75-77): one marker trace per strain
ScatterTraces(frame) ==
    LET strains == Unique(frame, "strain")
    IN [k \in 1..Len(strains) |->
           [name |-> <<strains[k]>>, mode |-> "markers", dash |-> "solid",
            x |-> Column(Filter(frame, "strain", strains[k]).data, "concentration"),
            y |-> Column(Filter(frame, "strain", strains[k]).data, "proportion")]]

\* the fitted line of one strain (lines 81-93): 100 points from the least to
\* the greatest concentration of the strain, on the model fitted to its rows
FittedTrace(frame, strain) ==
    LET strain_data == Filter(frame, "strain", strain)
        conc == Column(strain_data.data, "concentration")
    IN [name |-> <<strain, "(fitted)">>, mode |-> "lines", dash |-> "dash",
        x |-> [from |-> SeqMin(conc), to |-> SeqMax(conc), points |-> 100],
        y |-> Estimate("predict", 0, strain_data.data)]

\* the loop of lines 80-93
RECURSIVE FittedLoop(_, _, _, _)
FittedLoop(frame, strains, failing, traces) ==
    IF strains = <<>> THEN [raised |-> "none", traces |-> traces]
    ELSE IF Head(strains) \in failing
    THEN [raised |-> "FitError", traces |-> traces]
    ELSE FittedLoop(frame, Tail(strains), failing,
                    Append(traces, FittedTrace(frame, Head(strains))))

\* the text of an annotation (line 102)
AnnotationText(strain, lc_value, lc, ci_lower, ci_upper) ==
    <<strain, LCKey(lc_value), lc, "95% CI", ci_lower, ci_upper>>

\* the loop of lines 96-105 over lc_results.items(): every value is indexed
\* with the LC key, which a number does not allow and a record of another
\* percentile does not hold
RECURSIVE AnnotationLoop(_, _, _, _)
AnnotationLoop(lc_results, keys, lc_value, annotations) ==
    IF keys = <<>> THEN [raised |-> "none", annotations |-> annotations]
    ELSE LET strain == Head(keys)
             results == lc_results.map[strain]
         IN IF ~ IsDict(results)
            THEN [raised |-> "IndexError", annotations |-> annotations]
            ELSE IF LCKey(lc_value) \notin Range(results.keys)
            THEN [raised |-> "KeyError", annotations |-> annotations]
            ELSE AnnotationLoop(lc_results, Tail(keys), lc_value,
                    Append(annotations,
                        [x |-> results.map[LCKey(lc_value)],
                         y |-> (lc_value * FScale) \div 100,
                         text |-> AnnotationText(strain, lc_value,
                                     results.map[LCKey(lc_value)],
                                     results.map["CI_lower"],
                                     results.map["CI_upper"])]))

\* plot_lc_probit(df, lc_results, lc_value) (lines 72-107): what it raises or
\* returns, and the caller's table after the call
plot_lc_probit(frame, lc_results, lc_value, failing) ==
    LET withprop == SetProportion(frame)
        fitted == FittedLoop(withprop, Unique(withprop, "strain"), failing,
                             ScatterTraces(withprop))
        annotated == AnnotationLoop(lc_results, lc_results.keys, lc_value, <<>>)
    IN IF fitted.raised # "none"
       THEN [raised |-> fitted.raised, returned |-> FALSE, value |-> "nothing",
             frame |-> withprop]
       ELSE IF annotated.raised # "none"
       THEN [raised |-> annotated.raised, returned |-> FALSE, value |-> "nothing",
             frame |-> withprop]
       ELSE [raised |-> "none", returned |-> TRUE,
             value |-> [traces |-> fitted.traces,
                        annotations |-> annotated.annotations],
             frame |-> withprop]

\* the caller plots the results the call before returned
PlotLcProbit ==
    /\ last.op = "calculate_lc_probit"
    /\ last.raised = "none"
    /\ \E lc_value \in LCValues :
        \E r \in {plot_lc_probit(df, last.value, lc_value, nofit)} :
           /\ last' = [op |-> "plot_lc_probit", lc_value |-> lc_value,
                       results_lc_value |-> last.lc_value,
                       results_by_strain |-> last.by_strain,
                       raised |-> r.raised, returned |-> r.returned,
                       value |-> r.value]
           /\ df' = r.frame
           /\ UNCHANGED <<loader, orig, nofit>>

(***************************************************************************)
(* The specifications.                                                     *)
(***************************************************************************)
SomeTable == [cols |-> BaseCols,
              data |-> <<[strain |-> 1, concentration |-> 1, total |-> 1,
                          dead |-> 0]>>]

\* a caller holding a table, calling the analyzers and the plotter on it
Init ==
    /\ loader = NotCalled
    /\ orig \in Tables
    /\ df = orig
    /\ nofit \in SUBSET (Range(Unique(orig, "strain")) \cup {Pooled})
    /\ last = NoCall

Next == AnalyzeDiagnosticDose \/ CalculateLcProbit \/ PlotLcProbit

Spec == Init /\ [][Next]_vars

\* a caller loading files
InitLoader ==
    /\ loader = NotCalled
    /\ orig = SomeTable
    /\ df = orig
    /\ nofit = {}
    /\ last = NoCall

NextLoader == Load

SpecLoader == InitLoader /\ [][NextLoader]_vars

\* a caller analysing a table once
InitDiagnostic ==
    /\ loader = NotCalled
    /\ orig \in Tables
    /\ df = orig
    /\ nofit = {}
    /\ last = NoCall

NextDiagnostic == last = NoCall /\ AnalyzeDiagnosticDose

SpecDiagnostic == InitDiagnostic /\ [][NextDiagnostic]_vars

\* a caller estimating lethal concentrations once; the fits that may fail
\* are those of the strains
InitProbit ==
    /\ loader = NotCalled
    /\ orig \in Tables
    /\ df = orig
    /\ nofit \in SUBSET Range(Unique(orig, "strain"))
    /\ last = NoCall

NextProbit == last = NoCall /\ CalculateLcProbit

SpecProbit == InitProbit /\ [][NextProbit]_vars

(***************************************************************************)
(* The loader.                                                             *)
(***************************************************************************)
\* C1: load_bioassay_data never lets a failure reach its caller: whenever
\* loading fails (the reader raises, or no reader takes the extension) the
\* call prints a message and returns None instead of raising.
C1_LoaderNeverRaises ==
    loader.called =>
        /\ ~ loader.raised
        /\ loader.exception # "none" =>
              loader.returned = "None" /\ loader.printed = "Error loading file"
        /\ loader.exception = "none" =>
              loader.returned = "DataFrame" /\ loader.printed = "none"

C1_Witness ==
    /\ loader.called
    /\ loader.reader = "read_csv"
    /\ loader.exception = "FileNotFoundError"
    /\ loader.returned = "None"

\* the file name of path p ends, in any case, with extension e, and more than
\* dots precedes e in the name
NameStart(p) == RFind(p, "/") + 1
HasExt(p, e) ==
    LET k == Len(p) - Len(e)
    IN /\ k >= NameStart(p)
       /\ Lower(SubSeq(p, k + 1, Len(p))) = e
       /\ \E j \in NameStart(p)..k : p[j] # "."

\* C2: the reader follows from the extension compared without regard to
\* case: .xlsx and .xls go to the spreadsheet reader, .csv to the comma
\* reader, .tsv to the tab reader, and any other path reaches no reader and
\* ends in the unsupported-format error.
C2_DispatchByExtension ==
    loader.called =>
        LET p == loader.file_path
            excel == HasExt(p, <<".", "x", "l", "s", "x">>)
                     \/ HasExt(p, <<".", "x", "l", "s">>)
            csv == HasExt(p, <<".", "c", "s", "v">>)
            tsv == HasExt(p, <<".", "t", "s", "v">>)
        IN /\ loader.reader = "read_excel" <=> excel
           /\ loader.reader = "read_csv" <=> csv
           /\ loader.reader = "read_csv_tab" <=> tsv
           /\ loader.reader = "none" <=> ~ (excel \/ csv \/ tsv)
           /\ loader.reader = "none" => loader.exception = "ValueError"
           /\ loader.reader # "none" => loader.exception # "ValueError"

C2_Witness ==
    /\ loader.called
    /\ loader.file_path = <<"a", ".", "C", "S", "V">>
    /\ loader.reader = "read_csv"

(***************************************************************************)
(* The diagnostic-dose analyzer.                                           *)
(***************************************************************************)
Analyzed == last.op = "analyze_diagnostic_dose" /\ last.returned

\* the group keys the output rows carry, row by row
OutKeys == [g \in 1..Len(last.value.data) |->
               KeyOf(last.value.data[g], last.groupby_columns)]

\* C3: the result holds exactly one row per distinct combination of grouping
\* values of the table, also when rows share a key, and each row holds the
\* grouping columns and three scalar metrics.
C3_OneScalarRowPerGroup ==
    Analyzed =>
        /\ Range(OutKeys) = {KeyOf(r, last.groupby_columns) : r \in Range(df.data)}
        /\ Len(OutKeys) = Cardinality(Range(OutKeys))
        /\ \A g \in 1..Len(last.value.data) :
              /\ DOMAIN last.value.data[g]
                    = Range(last.groupby_columns) \cup Range(Metrics)
              /\ \A m \in Range(Metrics) : Len(last.value.data[g][m]) = 1

\* the rows of the table in the group of output row g
RowsOf(g) ==
    SelectSeq(df.data, LAMBDA r : KeyOf(r, last.groupby_columns) = OutKeys[g])

\* C4: for counts with 0 < dead < total, the emitted mean_mortality is
\* dead/total in percent and lies strictly between 0 and 100, and the
\* interval is the mean minus and plus t(0.975, total-1) * sqrt(p(1-p)/total)
\* in percent (to the rounding of the fixed-point values), so that
\* ci_lower < mean_mortality < ci_upper.
C4_IntervalAroundMean ==
    Analyzed =>
        \A g \in 1..Len(last.value.data) :
          LET rows == RowsOf(g)
          IN \A i \in 1..Len(rows) :
                LET r == rows[i]
                    mean == last.value.data[g]["mean_mortality"][i]
                    lower == last.value.data[g]["ci_lower"][i]
                    upper == last.value.data[g]["ci_upper"][i]
                    t == TPpf975(r["total"] - 1)
                    p == mean \div 100
                    width == (mean - lower) \div 100
                IN 0 < r["dead"] /\ r["dead"] < r["total"] =>
                      /\ lower # NaN /\ upper # NaN
                      /\ 0 < mean /\ mean < 100 * FScale
                      /\ lower < mean /\ mean < upper
                      /\ mean * r["total"] <= r["dead"] * 100 * FScale
                      /\ r["dead"] * 100 * FScale < (mean + 100) * r["total"]
                      /\ mean - lower = upper - mean
                      /\ \E se \in ((width * TScale + t - 1) \div t)
                                    ..(((width + 1) * TScale - 1) \div t) :
                            /\ se * se * r["total"] <= p * (FScale - p)
                            /\ p * (FScale - p)
                                  < ((se + 1) * (se + 1) + 1) * r["total"]

C4_Witness ==
    /\ Analyzed
    /\ \E g \in 1..Len(last.value.data) :
          \E i \in 1..Len(RowsOf(g)) :
              /\ 0 < RowsOf(g)[i]["dead"]
              /\ RowsOf(g)[i]["dead"] < RowsOf(g)[i]["total"]
              /\ last.value.data[g]["ci_lower"][i] # NaN

\* C10 as stated: the rows appear in the order in which their groups are
\* first seen in the table, and the grouping columns in the order listed.
C10_FirstSeenOrder ==
    Analyzed =>
        /\ OutKeys = FirstSeenKeys(df, last.groupby_columns)
        /\ last.value.cols = last.groupby_columns \o Metrics

\* C10 amended: the rows appear in ascending order of their group keys
\* (compared column by column in the order listed), whatever the order of
\* the table's rows, and the grouping columns in the order listed.
C10_AscendingKeyOrder ==
    Analyzed =>
        /\ \A g \in 1..(Len(OutKeys) - 1) : LexLess(OutKeys[g], OutKeys[g + 1])
        /\ Range(OutKeys) = Range(FirstSeenKeys(df, last.groupby_columns))
        /\ last.value.cols = last.groupby_columns \o Metrics

C10_Witness ==
    /\ Analyzed
    /\ Len(OutKeys) >= 2
    /\ OutKeys # FirstSeenKeys(df, last.groupby_columns)

(***************************************************************************)
(* The probit analyzer.                                                    *)
(***************************************************************************)
Estimated == last.op = "calculate_lc_probit" /\ last.returned

StrainsOf(frame) == {r["strain"] : r \in Range(frame.data)}

\* the LC record expected from rows: its three fields, each estimated from
\* the concentrations and the proportions dead of those rows alone
IsLcRecordOf(rec, lc_value, rows) ==
    /\ Range(rec.keys) = {LCKey(lc_value), "CI_lower", "CI_upper"}
    /\ DOMAIN rec.map = Range(rec.keys)
    /\ \A k \in DOMAIN rec.map :
          /\ rec.map[k].lc_value = lc_value
          /\ rec.map[k].stat = (IF k = LCKey(lc_value) THEN "LC" ELSE k)
          /\ rec.map[k].concentration
                = [i \in 1..Len(rows) |-> rows[i]["concentration"]]
          /\ rec.map[k].proportion
                = [i \in 1..Len(rows) |->
                      (rows[i]["dead"] * FScale) \div rows[i]["total"]]

\* C7: by strain, the result maps exactly the distinct strains of the table,
\* each to the record LC<lc_value>, CI_lower, CI_upper of that strain's rows
\* only; pooled, it is one such record of all the rows.
C7_ResultShape ==
    Estimated =>
        IF last.by_strain
        THEN /\ Range(last.value.keys) = StrainsOf(orig)
             /\ DOMAIN last.value.map = StrainsOf(orig)
             /\ \A s \in StrainsOf(orig) :
                   /\ IsDict(last.value.map[s])
                   /\ IsLcRecordOf(last.value.map[s], last.lc_value,
                         SelectSeq(orig.data, LAMBDA r : r["strain"] = s))
        ELSE IsLcRecordOf(last.value, last.lc_value, orig.data)

C7_Witness ==
    /\ Estimated
    /\ last.by_strain
    /\ Cardinality(StrainsOf(orig)) = 2
    /\ Len(orig.data) = 2

\* C9: by strain, a fit that fails for any one strain of the table ends the
\* call with the error: no mapping is returned, whichever strains were done
\* before; and without a failing strain the call returns.
C9_FailureAbortsLoop ==
    (last.op = "calculate_lc_probit" /\ last.by_strain) =>
        IF StrainsOf(orig) \cap nofit # {}
        THEN last.raised # "none" /\ ~ last.returned
        ELSE last.raised = "none" /\ last.returned

C9_Witness ==
    /\ last.op = "calculate_lc_probit"
    /\ last.by_strain
    /\ Len(orig.data) = 2
    /\ orig.data[1]["strain"] \notin nofit
    /\ orig.data[2]["strain"] \in nofit
    /\ last.raised = "FitError"

(***************************************************************************)
(* The calls on one table, one after the other.                            *)
(***************************************************************************)
\* C5: the analyzers and the plotter leave the caller's table as it was:
\* after any calls it has the columns and the values it had before.
C5_TableUntouched == df = orig

SameOutcome(a, b) ==
    /\ a.raised = b.raised
    /\ a.raised = "none" => a.value = b.value

\* C6: the output of an analyzer call is what the call yields on the table
\* as it was handed over, whatever calls were made on the table before.
C6_OutputOfArgumentsOnly ==
    /\ last.op = "analyze_diagnostic_dose" =>
          SameOutcome(last, analyze_diagnostic_dose(orig, last.groupby_columns))
    /\ last.op = "calculate_lc_probit" =>
          SameOutcome(last, calculate_lc_probit(orig, last.lc_value,
                                                last.by_strain, nofit))

Dashed(fig) == SelectSeq(fig.traces, LAMBDA t : t.dash = "dash")

\* C8: given the results calculate_lc_probit returned for the table with the
\* same lc_value, by strain or pooled, plot_lc_probit returns a figure with
\* one dashed fitted line per strain of the table and one annotation per
\* strain, anchored at (LC, lc_value/100) and naming the strain, the LC label
\* and the interval.
C8_FigureOfResults ==
    (last.op = "plot_lc_probit" /\ last.lc_value = last.results_lc_value) =>
        /\ last.returned
        /\ Len(Dashed(last.value)) = Cardinality(StrainsOf(orig))
        /\ {t.name[1] : t \in Range(Dashed(last.value))} = StrainsOf(orig)
        /\ Len(last.value.annotations) = Cardinality(StrainsOf(orig))
        /\ {a.text[1] : a \in Range(last.value.annotations)} = StrainsOf(orig)
        /\ \A a \in Range(last.value.annotations) :
              /\ a.x.stat = "LC" /\ a.x.lc_value = last.lc_value
              /\ a.y = (last.lc_value * FScale) \div 100
              /\ a.text[2] = LCKey(last.lc_value)
              /\ a.text[3] = a.x
              /\ a.text[5].stat = "CI_lower" /\ a.text[6].stat = "CI_upper"

\* with results computed by strain the figure is as C8 says
C8_FigureOfStrainResults ==
    (last.op = "plot_lc_probit" /\ last.results_by_strain) =>
        C8_FigureOfResults
=============================================================================
